---- MODULE Spec2Model ----
(***************************************************************************)
(* A model of deck-gen.py: the pipeline                                    *)
(*   topic -> ResearchAgent -> OrchestratorAgent -> ContentStrategistAgent *)
(*         -> VisualAssetAgent -> PowerPointAssemblyAgent -> .pptx file    *)
(* The external services (the two search backends, the generation model,   *)
(* the image search, the image download, Pillow, the file system) are the  *)
(* environment: every action draws their outcome from a small set.         *)
(*                                                                         *)
(* Text is a sequence of tokens; " " is the whitespace token.  A JSON      *)
(* object is a record with a field "keys" naming the keys it holds, so     *)
(* that dict.get and the "in" test are computed as Python computes them.   *)
(***************************************************************************)
EXTENDS Integers, Sequences, FiniteSets, TLC

VARIABLES
    pc,                     \* position of the main block
    presentation_topic,     \* input() of line 298
    GOOGLE_SEARCH_API_KEY,  \* os.getenv, line 20
    CUSTOM_SEARCH_ENGINE_ID,\* os.getenv, line 21
    web_context,            \* line 310
    presentation_plan,      \* line 313
    initial_content,        \* line 319
    enriched_content,       \* line 325
    prs,                    \* the Presentation being built: its slides
    slide_idx,              \* position of the loop of line 216 (1-based)
    image_query,            \* line 242: the query of the last key point slide
    image_request,          \* what the image search was last asked, if asked
    image_boundary,         \* how the image boundary last answered
    image_stream,           \* line 243: what _get_image_for_slide returned
    ppt_stream,             \* line 328
    output_file,            \* the artifact on disk
    stdout,                 \* the diagnostics printed so far
    uncaught                \* the exception that ended the run, if any

vars == <<pc, presentation_topic, GOOGLE_SEARCH_API_KEY, CUSTOM_SEARCH_ENGINE_ID,
          web_context, presentation_plan, initial_content, enriched_content,
          prs, slide_idx, image_query, image_request, image_boundary,
          image_stream, ppt_stream, output_file, stdout, uncaught>>

\* The longest slide list the generation capability is made to return,
\* besides the seven-slide answers that follow the plan.
MaxSlides == 2

\* ------------------------------------------------------------ Python values

\* What dict.get returns for a key the dict does not hold, where no default
\* is given; also the value of a variable not yet assigned.
None == "None"

NoException == "none"

\* ------------------------------------------------------------------ text

SP == " "

RECURSIVE lstrip(_)
lstrip(s) == IF s # <<>> /\ Head(s) = SP THEN lstrip(Tail(s)) ELSE s

RECURSIVE rstrip(_)
rstrip(s) ==
    IF s # <<>> /\ s[Len(s)] = SP THEN rstrip(SubSeq(s, 1, Len(s) - 1)) ELSE s

\* str.strip()
strip(s) == rstrip(lstrip(s))

\* " ".join(parts): parts is a sequence of texts
RECURSIVE join(_)
join(parts) ==
    IF parts = <<>> THEN <<>>
    ELSE IF Len(parts) = 1 THEN parts[1]
    ELSE parts[1] \o <<SP>> \o join(Tail(parts))

\* snippets[:3]
FirstThree(snippets) == SubSeq(snippets, 1, IF Len(snippets) < 3 THEN Len(snippets) ELSE 3)

\* ------------------------------------------------------------ environment

Topics == {"AI", "Quantum Computing"}

\* A credential read by os.getenv: a real key, the placeholder text of the
\* template .env, or not set at all (os.getenv returns None).
KeyStates == {"key", "placeholder", "unset"}

\* What a search backend can do: raise (timeout, HTTP error, bad JSON), or
\* answer with a list of snippets.  A Google item without a 'snippet' key
\* yields '' (line 60), the empty text.
DdgOutcomes ==
    { [status |-> "error", snippets |-> <<>>],
      [status |-> "ok", snippets |-> <<>>],
      [status |-> "ok", snippets |-> << <<"d1">>, <<"d2">>, <<"d3">>, <<"d4">> >>] }

GoogleOutcomes ==
    { [status |-> "error", snippets |-> <<>>],
      [status |-> "ok", snippets |-> <<>>],
      [status |-> "ok", snippets |-> << <<>> >>],
      [status |-> "ok", snippets |-> << <<"g1">> >>] }

\* --------------------------------------------------------- ResearchAgent

\* "YOUR_..." in KEY (lines 51, 168): a TypeError when KEY is None.
\* Python's or evaluates the second test only when the first is False.
KeysCheck(key, cse) ==
    IF key = "unset" THEN "TypeError"
    ELSE IF key = "placeholder" THEN "skip"
    ELSE IF cse = "unset" THEN "TypeError"
    ELSE IF cse = "placeholder" THEN "skip"
    ELSE "proceed"

\* _search_duckduckgo: [text, said]
search_duckduckgo(outcome) ==
    IF outcome.status = "error"
    THEN [text |-> <<>>, said |-> {"DuckDuckGo search failed"}]
    ELSE [text |-> IF outcome.snippets # <<>>
                   THEN join(FirstThree(outcome.snippets)) ELSE <<>>,
          said |-> {}]

\* _search_google, once the credentials test of line 51 has been passed
search_google(check, outcome) ==
    IF check = "skip"
    THEN [text |-> <<>>, said |-> {"Google Search keys not provided. Skipping Google search."}]
    ELSE IF outcome.status = "error"
    THEN [text |-> <<>>, said |-> {"Google search failed"}]
    ELSE [text |-> IF outcome.snippets # <<>>
                   THEN join(FirstThree(outcome.snippets)) ELSE <<>>,
          said |-> {}]

NoContext == <<"No specific web context found.">>

\* search_web_for_topic, lines 71-78
CombineContext(ddg_context, google_context) ==
    LET combined_context == strip(ddg_context \o <<SP>> \o google_context)
    IN  IF combined_context # <<>> THEN combined_context ELSE NoContext

\* ------------------------------------------------------ OrchestratorAgent

\* A variant of the plan with three key point items.
create_presentation_plan_Short(topic, context) ==
    << [type |-> "title_slide", purpose |-> <<"A compelling title for the presentation.">>],
       [type |-> "overview_slide", purpose |-> <<"An overview describing key talking points.">>],
       [type |-> "key_point_slide", purpose |-> <<"The first key point or trend about ", topic, ".">>],
       [type |-> "key_point_slide", purpose |-> <<"The second key point or argument about ", topic, ".">>],
       [type |-> "key_point_slide", purpose |-> <<"The third key point or trend about ", topic, ".">>],
       [type |-> "conclusion_slide", purpose |-> <<"Give Concluding Points.">>] >>

\* create_presentation_plan, lines 83-98
create_presentation_plan(topic, context) ==
    << [type |-> "title_slide", purpose |-> <<"A compelling title for the presentation.">>],
       [type |-> "overview_slide", purpose |-> <<"An overview describing key talking points.">>],
       [type |-> "key_point_slide", purpose |-> <<"The first key point or trend about ", topic, ".">>],
       [type |-> "key_point_slide", purpose |-> <<"The second key point or argument about ", topic, ".">>],
       [type |-> "key_point_slide", purpose |-> <<"The third key point or trend about ", topic, ".">>],
       [type |-> "key_point_slide", purpose |-> <<"The fourth key point or argument about ", topic, ".">>],
       [type |-> "conclusion_slide", purpose |-> <<"Give Concluding Points.">>] >>

\* ------------------------------------------------------------ JSON values

\* A parsed JSON value, as far as the program looks into it.  kind "null" is
\* Python's None; "number" is a non-zero number; "array" is a non-empty list
\* at the top level (not holding the string 'slides'); "object" is a dict with the keys named in keys.
\* slides is the value under 'slides' when it is a list (slides_is_list).
JValue(kind, keys, is_list, slides) ==
    [kind |-> kind, keys |-> keys, slides_is_list |-> is_list, slides |-> slides]

Unassigned == JValue("unassigned", {}, FALSE, <<>>)
JNull == JValue("null", {}, FALSE, <<>>)
JNumber == JValue("number", {}, FALSE, <<>>)
JArray == JValue("array", {}, FALSE, <<>>)
JEmptyObject == JValue("object", {}, FALSE, <<>>)
JNoSlides == JValue("object", {"title"}, FALSE, <<>>)
JSlidesNotList == JValue("object", {"slides"}, FALSE, <<>>)
Content(slides) == JValue("object", {"slides"}, TRUE, slides)

\* An entry of the slides list: a dict, or something that is not a dict.
Entry(keys, type, title, points, query) ==
    [kind |-> "object", keys |-> keys, type |-> type, title |-> title,
     points |-> points, image_query |-> query]

NotADict == [kind |-> "number", keys |-> {}, type |-> "", title |-> "",
             points |-> <<>>, image_query |-> ""]

Slide(type, title, points) == Entry({"type", "title", "points"}, type, title, points, "")

SlideWithQuery(type, title, points, query) ==
    Entry({"type", "title", "points", "image_query"}, type, title, points, query)

\* dict.get(key, default)
Get(d, key, default) ==
    IF key \in d.keys
    THEN CASE key = "type" -> d.type
           [] key = "title" -> d.title
           [] key = "image_query" -> d.image_query
    ELSE default

GetPoints(d) == IF "points" \in d.keys THEN d.points ELSE <<>>

\* A variant of line 320 that lets every value through.
Truthy_Always(v) == TRUE

\* Python truthiness of a parsed value (not initial_content, line 320)
Truthy(v) ==
    CASE v.kind = "null" -> FALSE
      [] v.kind = "object" -> v.keys # {}
      [] OTHER -> TRUE

\* The entries the generation capability is made to return.
Entries ==
    { Slide("title_slide", "Title", <<>>),
      Entry({"type"}, "overview_slide", "", <<>>, ""),
      Slide("key_point_slide", "Point", <<"k1">>),
      SlideWithQuery("key_point_slide", "Point Q", <<"k2">>, "cat"),
      Slide("quote_slide", "Quote", <<"q1">>),
      Entry({"title", "points"}, "", "Untyped", <<"u1">>, ""),
      NotADict }

SeqsUpTo(S, n) == UNION { [1..k -> S] : k \in 0..n }

\* A content that follows the plan: one entry per plan item, of its type.
FollowPlan(plan) ==
    Content([i \in 1..Len(plan) |->
                Slide(plan[i].type, plan[i].type, <<"p1", "p2", "p3", "p4">>)])

\* Scenario D: the same, with one entry of an unrecognized type.
OffPlan(plan) ==
    Content([i \in 1..Len(plan) |->
                Slide(IF i = 3 THEN "quote_slide" ELSE plan[i].type,
                      plan[i].type, <<"p1", "p2", "p3", "p4">>)])

GeneratedValues(plan) ==
    { JNull, JNumber, JArray, JEmptyObject, JNoSlides, JSlidesNotList }
        \cup { Content(s) : s \in SeqsUpTo(Entries, MaxSlides) }
        \cup { FollowPlan(plan), OffPlan(plan) }

\* ------------------------------------------------- the generation capability

\* response.text: tokens before a JSON document, the document, tokens after.
\* has_doc is FALSE for a text that holds no JSON document at all.
Text(before, has_doc, doc, after) ==
    [before |-> before, has_doc |-> has_doc, doc |-> doc, after |-> after]

\* The fence markers of lines 130 and 156: three backquotes followed by
\* json, and three backquotes.
FenceJson == "<fence>json"
Fence == "<fence>"

Raw(v) == Text(<<>>, TRUE, v, <<>>)
Fenced(v) == Text(<<FenceJson, SP>>, TRUE, v, <<SP, Fence, SP>>)
Chatty(v) == Text(<<"Here is the JSON:", SP>>, TRUE, v, <<>>)
Garbage == Text(<<"I", SP, "cannot", SP, "help">>, FALSE, JNull, <<>>)
OnlyFence == Text(<<FenceJson, SP, Fence>>, FALSE, JNull, <<>>)

\* model.generate_content raises, or returns a response with a text.
Responses(values) ==
    { [status |-> "error", text |-> Garbage] }
        \cup { [status |-> "ok", text |-> t] :
                 t \in { Raw(v) : v \in values } \cup { Fenced(v) : v \in values }
                        \cup { Chatty(JEmptyObject), Garbage, OnlyFence } }

\* text.strip()
StripText(t) ==
    IF t.has_doc
    THEN Text(lstrip(t.before), TRUE, t.doc, rstrip(t.after))
    ELSE Text(strip(t.before \o t.after), FALSE, t.doc, <<>>)

Remove(s, marker) == SelectSeq(s, LAMBDA tok : tok # marker)

\* text.replace(marker, "")
ReplaceText(t, marker) ==
    Text(Remove(t.before, marker), t.has_doc, t.doc, Remove(t.after, marker))

\* lines 130, 156
CleanResponse(t) == ReplaceText(ReplaceText(StripText(t), FenceJson), Fence)

\* json.loads accepts one document with only whitespace around it
Parses(t) == t.has_doc /\ strip(t.before) = <<>> /\ strip(t.after) = <<>>

\* ------------------------------------------------- ContentStrategistAgent

\* generate_presentation_content, lines 127-135: [value, said]
generate_presentation_content(response) ==
    IF response.status = "ok" /\ Parses(CleanResponse(response.text))
    THEN [value |-> CleanResponse(response.text).doc, said |-> {}]
    ELSE [value |-> JNull, said |-> {"AI content generation failed"}]

\* ------------------------------------------------------- VisualAssetAgent

\* A variant of add_image_queries_to_content that returns None on failure,
\* as generate_presentation_content does.
add_image_queries_to_content_Lossy(content, response) ==
    IF response.status = "ok" /\ Parses(CleanResponse(response.text))
    THEN [value |-> CleanResponse(response.text).doc, said |-> {}]
    ELSE [value |-> JNull, said |-> {"Failed to add image queries"}]

\* add_image_queries_to_content, lines 154-162: [value, said]
add_image_queries_to_content(content, response) ==
    IF response.status = "ok" /\ Parses(CleanResponse(response.text))
    THEN [value |-> CleanResponse(response.text).doc, said |-> {}]
    ELSE [value |-> content, said |-> {"Failed to add image queries"}]

\* What the capability is made to answer when asked to enrich content:
\* the content with a query on every key point slide, the content with its
\* first entry retitled, the content without its last entry, and values that
\* are no content at all.
WithQueries(content) ==
    Content([i \in 1..Len(content.slides) |->
       LET e == content.slides[i]
       IN  IF e.kind = "object" /\ Get(e, "type", None) = "key_point_slide"
           THEN [e EXCEPT !.keys = @ \cup {"image_query"}, !.image_query = "cat"]
           ELSE e])

Retitled(content) ==
    Content([content.slides EXCEPT ![1] =
                [@ EXCEPT !.keys = @ \cup {"title"}, !.title = "Changed"]])

Dropped(content) == Content(SubSeq(content.slides, 1, Len(content.slides) - 1))

EnrichedValues(content) ==
    { JNull, JNumber, JSlidesNotList }
        \cup IF content.kind = "object" /\ content.slides_is_list
             THEN { WithQueries(content) }
                    \cup IF content.slides # <<>> /\ content.slides[1].kind = "object"
                         THEN { Retitled(content), Dropped(content) }
                         ELSE {}
             ELSE {}

\* ------------------------------------------------ PowerPointAssemblyAgent

SlideTypes == {"title_slide", "overview_slide", "key_point_slide", "conclusion_slide"}

\* What the image boundary can do once it is asked (lines 174-197): the
\* search raises, it answers without items, the download raises, Pillow
\* cannot open the bytes, Pillow cannot save them as PNG, or all of it works.
ImageOutcomes ==
    {"search_error", "no_items", "download_error", "decode_error", "encode_error", "ok"}

\* line 242: slide_data.get("image_query", topic)
\* A variant of line 242 that ignores the image_query field.
ResolveQuery_TopicOnly(slide_data, topic) == topic

ResolveQuery(slide_data, topic) == Get(slide_data, "image_query", topic)

\* A variant of _get_image_for_slide without its try/except: every exception
\* of the search, the download and Pillow leaves the function.
get_image_for_slide_Uncaught(check, query, outcome) ==
    [result |-> IF check = "proceed" /\ outcome \in {"ok", "no_items"} THEN "return"
                ELSE IF check = "skip" THEN "return" ELSE "raise",
     stream |-> IF check = "proceed" /\ outcome = "ok" THEN "PNG" ELSE None,
     request |-> IF check = "proceed" THEN query ELSE None,
     answer |-> IF check = "proceed" THEN outcome ELSE "not_called",
     said |-> {}]

\* _get_image_for_slide, lines 166-205: [result, stream, request, answer, said].
\* request is the query the image search was asked, None when it was not.
get_image_for_slide(check, query, outcome) ==
    CASE check = "TypeError" ->
            [result |-> "raise", stream |-> None, request |-> None,
             answer |-> "not_called", said |-> {}]
      [] check = "skip" ->
            [result |-> "return", stream |-> None, request |-> None,
             answer |-> "not_called",
             said |-> {"Google Search keys not provided. Skipping image insertion."}]
      [] OTHER ->
            [result |-> "return",
             stream |-> IF outcome = "ok" THEN "PNG" ELSE None,
             request |-> query,
             answer |-> outcome,
             said |-> CASE outcome = "ok" -> {}
                        [] outcome = "no_items" -> {"No image found on Google."}
                        [] OTHER -> {"Google Image search/download/conversion failed"}]

\* A rendered slide: the layout's index in prs.slide_layouts, the texts put
\* in its placeholders, the font size of its paragraphs, the picture added.
Rendered(layout, title, subtitle, points, size, picture) ==
    [layout |-> layout, title |-> title, subtitle |-> subtitle,
     points |-> points, font_size |-> size, picture |-> picture]

\* A variant of the loop body without the type cases: every entry adds a
\* content slide.
RenderSlide_AnyType(slide_data, topic, stream) ==
    << Rendered(IF stream # None THEN 3 ELSE 1, Get(slide_data, "title", "Untitled Slide"),
                <<>>, GetPoints(slide_data), 18, stream) >>

\* One turn of the loop of lines 216-286: the slides this entry adds.
RenderSlide(slide_data, topic, stream) ==
    LET slide_type == Get(slide_data, "type", None)
        title == Get(slide_data, "title", "Untitled Slide")
        points == GetPoints(slide_data)
    IN  CASE slide_type = "title_slide" ->
                << Rendered(0, title, <<"A Presentation on ", topic>>, <<>>, 0, None) >>
          [] slide_type \in {"overview_slide", "conclusion_slide"} ->
                << Rendered(1, title, <<>>, points, 15, None) >>
          [] slide_type = "key_point_slide" ->
                IF stream # None
                THEN << Rendered(3, title, <<>>, points, 18, stream) >>
                ELSE << Rendered(1, title, <<>>, points, 18, None) >>
          [] OTHER -> <<>>

\* line 212: "raise" where the in test itself fails, "reject" where the
\* function prints its error and returns None, "accept" otherwise
CheckContent(content) ==
    CASE content.kind \in {"null", "number"} -> "raise"
      [] content.kind = "array" -> "reject"
      [] OTHER -> IF "slides" \notin content.keys \/ ~content.slides_is_list
                  THEN "reject" ELSE "accept"

\* line 332
OutputName(topic) == <<"presentation-", topic, ".pptx">>

NoFile == [name |-> <<>>, slides |-> <<>>]

\* ---------------------------------------------------------------- the run

Init ==
    /\ pc = "research"
    /\ presentation_topic \in Topics
    /\ GOOGLE_SEARCH_API_KEY \in KeyStates
    /\ CUSTOM_SEARCH_ENGINE_ID \in KeyStates
    /\ web_context = <<>>
    /\ presentation_plan = <<>>
    /\ initial_content = Unassigned
    /\ enriched_content = Unassigned
    /\ prs = <<>>
    /\ slide_idx = 1
    /\ image_query = None
    /\ image_request = None
    /\ image_boundary = "not_called"
    /\ image_stream = None
    /\ ppt_stream = None
    /\ output_file = NoFile
    /\ stdout = {}
    /\ uncaught = NoException

\* line 310: researcher.search_web_for_topic(presentation_topic)
Research ==
    /\ pc = "research"
    /\ \E ddg \in DdgOutcomes, google \in GoogleOutcomes :
         LET check == KeysCheck(GOOGLE_SEARCH_API_KEY, CUSTOM_SEARCH_ENGINE_ID)
             d == search_duckduckgo(ddg)
             g == search_google(check, google)
         IN  IF check = "TypeError"
             THEN /\ uncaught' = "TypeError in _search_google"
                  /\ pc' = "crashed"
                  /\ stdout' = stdout \cup d.said
                  /\ UNCHANGED web_context
             ELSE /\ web_context' = CombineContext(d.text, g.text)
                  /\ stdout' = stdout \cup d.said \cup g.said
                  /\ pc' = "plan"
                  /\ UNCHANGED uncaught
    /\ UNCHANGED <<presentation_topic, GOOGLE_SEARCH_API_KEY, CUSTOM_SEARCH_ENGINE_ID,
                   presentation_plan, initial_content, enriched_content, prs,
                   slide_idx, image_query, image_request, image_boundary,
                   image_stream, ppt_stream, output_file>>

\* lines 313-316
Plan ==
    /\ pc = "plan"
    /\ presentation_plan' = create_presentation_plan(presentation_topic, web_context)
    /\ pc' = IF presentation_plan' = <<>> THEN "exited" ELSE "generate"
    /\ UNCHANGED <<presentation_topic, GOOGLE_SEARCH_API_KEY, CUSTOM_SEARCH_ENGINE_ID,
                   web_context, initial_content, enriched_content, prs,
                   slide_idx, image_query, image_request, image_boundary,
                   image_stream, ppt_stream, output_file, stdout, uncaught>>

\* lines 319-322
Generate ==
    /\ pc = "generate"
    /\ \E response \in Responses(GeneratedValues(presentation_plan)) :
         LET r == generate_presentation_content(response)
         IN  /\ initial_content' = r.value
             /\ stdout' = stdout \cup r.said
                    \cup IF Truthy(r.value) THEN {}
                         ELSE {"Failed to generate initial content. Exiting."}
             /\ pc' = IF Truthy(r.value) THEN "enrich" ELSE "exited"
    /\ UNCHANGED <<presentation_topic, GOOGLE_SEARCH_API_KEY, CUSTOM_SEARCH_ENGINE_ID,
                   web_context, presentation_plan, enriched_content, prs,
                   slide_idx, image_query, image_request, image_boundary,
                   image_stream, ppt_stream, output_file, uncaught>>

\* line 325
Enrich ==
    /\ pc = "enrich"
    /\ \E response \in Responses(EnrichedValues(initial_content)) :
         LET r == add_image_queries_to_content(initial_content, response)
         IN  /\ enriched_content' = r.value
             /\ stdout' = stdout \cup r.said
    /\ pc' = "assemble"
    /\ UNCHANGED <<presentation_topic, GOOGLE_SEARCH_API_KEY, CUSTOM_SEARCH_ENGINE_ID,
                   web_context, presentation_plan, initial_content, prs,
                   slide_idx, image_query, image_request, image_boundary,
                   image_stream, ppt_stream, output_file, uncaught>>

\* line 328, lines 208-214: create_powerpoint_deck up to its loop
AssembleBegin ==
    /\ pc = "assemble"
    /\ LET verdict == CheckContent(enriched_content)
       IN  /\ pc' = CASE verdict = "raise" -> "crashed"
                      [] verdict = "reject" -> "save"
                      [] OTHER -> "loop"
           /\ uncaught' = IF verdict = "raise"
                          THEN "TypeError in create_powerpoint_deck" ELSE uncaught
           /\ stdout' = IF verdict = "reject"
                        THEN stdout \cup {"Content is not in the expected format with a 'slides' list."}
                        ELSE stdout
    /\ UNCHANGED <<presentation_topic, GOOGLE_SEARCH_API_KEY, CUSTOM_SEARCH_ENGINE_ID,
                   web_context, presentation_plan, initial_content, enriched_content,
                   prs, slide_idx, image_query, image_request, image_boundary,
                   image_stream, ppt_stream, output_file>>

\* lines 216-286: one turn of the loop
AssembleSlide ==
    /\ pc = "loop"
    /\ slide_idx <= Len(enriched_content.slides)
    /\ LET slide_data == enriched_content.slides[slide_idx]
       IN  IF slide_data.kind # "object"
           THEN /\ uncaught' = "AttributeError in create_powerpoint_deck"
                /\ pc' = "crashed"
                /\ UNCHANGED <<prs, slide_idx, image_query, image_request,
                               image_boundary, image_stream, stdout>>
           ELSE IF Get(slide_data, "type", None) # "key_point_slide"
           THEN /\ prs' = prs \o RenderSlide(slide_data, presentation_topic, None)
                /\ slide_idx' = slide_idx + 1
                /\ UNCHANGED <<pc, image_query, image_request, image_boundary,
                               image_stream, stdout, uncaught>>
           ELSE \E outcome \in ImageOutcomes :
                  LET query == ResolveQuery(slide_data, presentation_topic)
                      got == get_image_for_slide(
                                 KeysCheck(GOOGLE_SEARCH_API_KEY, CUSTOM_SEARCH_ENGINE_ID),
                                 query, outcome)
                  IN  /\ image_query' = query
                      /\ image_request' = got.request
                      /\ image_boundary' = got.answer
                      /\ stdout' = stdout \cup got.said
                      /\ IF got.result = "raise"
                         THEN /\ uncaught' = "TypeError in _get_image_for_slide"
                              /\ pc' = "crashed"
                              /\ UNCHANGED <<prs, slide_idx, image_stream>>
                         ELSE /\ image_stream' = got.stream
                              /\ prs' = prs \o RenderSlide(slide_data, presentation_topic, got.stream)
                              /\ slide_idx' = slide_idx + 1
                              /\ UNCHANGED <<pc, uncaught>>
    /\ UNCHANGED <<presentation_topic, GOOGLE_SEARCH_API_KEY, CUSTOM_SEARCH_ENGINE_ID,
                   web_context, presentation_plan, initial_content, enriched_content,
                   ppt_stream, output_file>>

\* lines 288-292: the deck is serialized once, after the loop
AssembleFinish ==
    /\ pc = "loop"
    /\ slide_idx > Len(enriched_content.slides)
    /\ ppt_stream' = "stream"
    /\ pc' = "save"
    /\ UNCHANGED <<presentation_topic, GOOGLE_SEARCH_API_KEY, CUSTOM_SEARCH_ENGINE_ID,
                   web_context, presentation_plan, initial_content, enriched_content,
                   prs, slide_idx, image_query, image_request, image_boundary,
                   image_stream, output_file, stdout, uncaught>>

\* lines 331-340
Save ==
    /\ pc = "save"
    /\ IF ppt_stream # None
       THEN \E written \in BOOLEAN :
              IF written
              THEN /\ output_file' = [name |-> OutputName(presentation_topic), slides |-> prs]
                   /\ UNCHANGED stdout
              ELSE /\ stdout' = stdout \cup {"Failed to save the presentation file"}
                   /\ UNCHANGED output_file
       ELSE /\ stdout' = stdout \cup {"Failed to assemble the PowerPoint file. No file was saved."}
            /\ UNCHANGED output_file
    /\ pc' = "done"
    /\ UNCHANGED <<presentation_topic, GOOGLE_SEARCH_API_KEY, CUSTOM_SEARCH_ENGINE_ID,
                   web_context, presentation_plan, initial_content, enriched_content,
                   prs, slide_idx, image_query, image_request, image_boundary,
                   image_stream, ppt_stream, uncaught>>

Next ==
    \/ Research
    \/ Plan
    \/ Generate
    \/ Enrich
    \/ AssembleBegin
    \/ AssembleSlide
    \/ AssembleFinish
    \/ Save

Spec == Init /\ [][Next]_vars

\* ------------------------------------------------------------ properties

\* The content handed to the assembler is a dict whose 'slides' is a list
\* of dicts.
SlideObjects(content) ==
    /\ content.kind = "object"
    /\ "slides" \in content.keys
    /\ content.slides_is_list
    /\ \A i \in 1..Len(content.slides) : content.slides[i].kind = "object"

HasType(e, types) == e.kind = "object" /\ "type" \in e.keys /\ e.type \in types

Recognized(slides) == SelectSeq(slides, LAMBDA e : HasType(e, SlideTypes))

\* The rendered slide r is the rendering of entry e.
RendersEntry(r, e) ==
    /\ r.title = (IF "title" \in e.keys THEN e.title ELSE "Untitled Slide")
    /\ e.type = "title_slide" =>
           r.layout = 0 /\ r.subtitle = <<"A Presentation on ", presentation_topic>>
    /\ e.type # "title_slide" =>
           r.points = (IF "points" \in e.keys THEN e.points ELSE <<>>)
    /\ e.type \in {"overview_slide", "conclusion_slide"} => r.layout = 1
    /\ e.type = "key_point_slide" => r.layout \in {1, 3}

Corresponds(deck, entries) ==
    /\ Len(deck) = Len(entries)
    /\ \A k \in 1..Len(entries) : RendersEntry(deck[k], entries[k])

\* The entries the loop has been through.
Processed == SubSeq(enriched_content.slides, 1, slide_idx - 1)

\* C1: whenever the content handed to the assembler has a list of slide
\* objects under 'slides', assembly raises nothing and rejects nothing, the
\* slides rendered so far are, one for one and in input order, the entries of
\* a recognized type the loop has been through (entries of another type, or
\* of none, add nothing), and the deck returned is the rendering of all of
\* them, whatever the image boundary answered.
C1_DeckIsTheRecognizedEntries ==
    SlideObjects(enriched_content) =>
        /\ uncaught = NoException
        /\ pc \in {"loop", "save", "done"} =>
               Corresponds(prs, Recognized(Processed))
        /\ pc \in {"save", "done"} =>
               /\ ppt_stream = "stream"
               /\ Corresponds(prs, Recognized(enriched_content.slides))

\* Scenario D: seven entries, one of an unrecognized type, six slides.
C1_Witness ==
    /\ pc = "done"
    /\ enriched_content = OffPlan(presentation_plan)
    /\ Len(enriched_content.slides) = 7
    /\ Len(prs) = 6
    /\ ppt_stream = "stream"
    /\ \E k \in 1..Len(prs) : prs[k].picture # None
    /\ \E k \in 1..Len(prs) : prs[k].layout = 1 /\ prs[k].font_size = 18

\* The loop's last turn was for a key point slide.
LastWasKeyPoint ==
    /\ enriched_content.kind = "object"
    /\ enriched_content.slides_is_list
    /\ slide_idx > 1
    /\ slide_idx - 1 <= Len(enriched_content.slides)
    /\ HasType(enriched_content.slides[slide_idx - 1], {"key_point_slide"})
    /\ uncaught # "TypeError in _get_image_for_slide"

\* C2: a failure of the image search, the download, the decoding or the
\* re-encoding never ends the run; the key point slide it was for is rendered
\* with the single-content layout and no picture, and the loop goes on; a
\* slide has the two-column layout only when an image was resolved for it.
C2_ImageFailureFallsBack ==
    /\ uncaught # "TypeError in _get_image_for_slide"
    /\ \A k \in 1..Len(prs) : prs[k].layout = 3 <=> prs[k].picture # None
    /\ LastWasKeyPoint =>
           /\ prs # <<>>
           /\ image_boundary # "ok" =>
                  /\ image_stream = None
                  /\ prs[Len(prs)].layout = 1
                  /\ prs[Len(prs)].picture = None
                  /\ prs[Len(prs)].font_size = 18
                  /\ Len(prs) = Len(Recognized(Processed))
           /\ prs[Len(prs)].layout = 3 => image_boundary = "ok"
           /\ pc \in {"save", "done"} => ppt_stream = "stream"

\* Scenario C: seven slides, the image boundary asked and failing for all
\* four key point slides.
C2_Witness ==
    /\ pc = "done"
    /\ enriched_content = FollowPlan(presentation_plan)
    /\ image_request # None
    /\ image_boundary = "decode_error"
    /\ Len(prs) = 7
    /\ \A k \in 1..7 : prs[k].picture = None /\ prs[k].layout # 3
    /\ output_file # NoFile

\* C3: once content generation has failed (the call raised, or its text did
\* not parse), the content stage has returned None, the run has exited, and
\* neither enrichment nor assembly has run nor any file been written.
C3_GenerationFailureHalts ==
    "AI content generation failed" \in stdout =>
        /\ initial_content = JNull
        /\ pc = "exited"
        /\ enriched_content = Unassigned
        /\ prs = <<>>
        /\ ppt_stream = None
        /\ output_file = NoFile

C3_Witness ==
    /\ "AI content generation failed" \in stdout
    /\ pc = "exited"
    /\ output_file = NoFile

\* C4: once enrichment has failed (the call raised, or its text did not
\* parse), the enriched content is the content it was given, field for
\* field, and the run has gone on to assembly with it.
C4_EnrichmentFailureKeepsContent ==
    "Failed to add image queries" \in stdout =>
        /\ enriched_content = initial_content
        /\ pc \in {"assemble", "loop", "save", "done", "crashed"}

C4_Witness ==
    /\ "Failed to add image queries" \in stdout
    /\ enriched_content = initial_content
    /\ Len(enriched_content.slides) > 1
    /\ pc = "done"
    /\ output_file # NoFile

\* C5: a content with no 'slides', with a 'slides' that is no list, or
\* otherwise malformed never raises out of the assembler: it is rejected with
\* the error value, no deck is returned and no file is written.
C5_MalformedContentIsRejected ==
    (enriched_content # Unassigned /\ ~SlideObjects(enriched_content)) =>
        /\ uncaught = NoException
        /\ pc \in {"save", "done"} => ppt_stream = None
        /\ output_file = NoFile

RECURSIVE LastKeyPoint(_, _)
\* the last key point entry among the first n entries
LastKeyPoint(slides, n) ==
    IF HasType(slides[n], {"key_point_slide"}) THEN slides[n]
    ELSE LastKeyPoint(slides, n - 1)

\* C6: the query resolved for a key point slide is its image_query when it
\* has the field and the topic when it has not, and the image search is
\* asked that query or is not asked at all.
C6_QueryIsImageQueryOrTopic ==
    /\ image_request \in {None, image_query}
    /\ image_query # None =>
           LET e == LastKeyPoint(enriched_content.slides, slide_idx - 1)
           IN  image_query = (IF "image_query" \in e.keys THEN e.image_query
                              ELSE presentation_topic)
    /\ (image_query # None
          /\ KeysCheck(GOOGLE_SEARCH_API_KEY, CUSTOM_SEARCH_ENGINE_ID) = "proceed") =>
           image_request = image_query

\* The image search asked for the topic, for a key point slide without an
\* image_query, after one that had an image_query.
C6_Witness ==
    /\ image_request = presentation_topic
    /\ image_boundary = "ok"
    /\ slide_idx = 3
    /\ "image_query" \in enriched_content.slides[1].keys
    /\ "image_query" \notin enriched_content.slides[2].keys
    /\ Len(prs) = 2

EnrichmentSucceeded ==
    /\ enriched_content # Unassigned
    /\ "Failed to add image queries" \notin stdout

\* C7: when enrichment succeeded, the enriched content has the slides of
\* the content it was given, in the same number and order, and every slide
\* that is no key point slide is the same in all its fields.
C7_EnrichmentKeepsOtherSlides ==
    EnrichmentSucceeded =>
        /\ enriched_content.kind = initial_content.kind
        /\ enriched_content.keys = initial_content.keys
        /\ Len(enriched_content.slides) = Len(initial_content.slides)
        /\ \A i \in 1..Len(initial_content.slides) :
               ~HasType(initial_content.slides[i], {"key_point_slide"}) =>
                   enriched_content.slides[i] = initial_content.slides[i]

\* C8: research never ends the run: whatever the backends and the
\* credentials, it returns a context, and the context is the sentinel
\* when no backend contributed anything.
C8_ResearchAlwaysReturns ==
    /\ uncaught # "TypeError in _search_google"
    /\ pc # "research" => web_context # <<>>

\* C9: the content handed to the assembler has one slide per plan item,
\* of the plan item's type.
C9_ContentFollowsPlan ==
    pc \in {"assemble", "loop", "save", "done"} =>
        /\ enriched_content.kind = "object"
        /\ enriched_content.slides_is_list
        /\ Len(enriched_content.slides) = Len(presentation_plan)
        /\ \A i \in 1..Len(presentation_plan) :
               HasType(enriched_content.slides[i], {presentation_plan[i].type})

PlanTypes ==
    << "title_slide", "overview_slide", "key_point_slide", "key_point_slide",
       "key_point_slide", "key_point_slide", "conclusion_slide" >>

Mentions(purpose, topic) == \E k \in 1..Len(purpose) : purpose[k] = topic

\* C10: once research has returned, planning cannot fail; the plan has
\* exactly seven items, of the fixed type sequence, and the topic appears in
\* the purpose of the four key point items and of no other item.
C10_PlanIsFixed ==
    /\ pc \in {"generate", "enrich", "assemble", "loop", "save", "done", "exited"} =>
           /\ Len(presentation_plan) = 7
           /\ \A i \in 1..7 :
                 /\ presentation_plan[i].type = PlanTypes[i]
                 /\ Mentions(presentation_plan[i].purpose, presentation_topic)
                        <=> PlanTypes[i] = "key_point_slide"
    /\ pc = "exited" => initial_content # Unassigned

C10_Witness ==
    /\ pc = "generate"
    /\ presentation_topic = "Quantum Computing"
    /\ web_context = NoContext
    /\ Len(presentation_plan) = 7

====
